---- MODULE Spec2Model ----
(***************************************************************************)
(* A model of app.py: the PDF question-answering pipeline (load_pdfs,      *)
(* split_into_chunks, build_index, search_index, call_ollama_llm,          *)
(* build_strict_answer_from_chunks, generate_answer) and the Streamlit     *)
(* script main() that drives it.                                           *)
(*                                                                         *)
(* A Python str is a finite sequence of pieces.  Text that the program     *)
(* inspects character by character (document text, file names, queries)    *)
(* is a sequence of one-character pieces; a string literal of the program  *)
(* that is only ever concatenated is a single piece.  No piece is empty,   *)
(* so a str is the empty string exactly when the sequence is << >>.        *)
(***************************************************************************)
EXTENDS Integers, Sequences, FiniteSets, TLC

VARIABLES
    fs,            \* what the file system holds at PDF_FOLDER
    cache,         \* the st.cache_data entry of get_index: << >> or <<value>>
    session_state, \* st.session_state of each session
    pc,            \* where each session's script run is
    user_input,    \* what st.chat_input returned in the session's last run,
                   \* << >> when it returned None or was not reached
    screen,        \* what the session's last script run rendered
    warnings,      \* the st.warning calls of the session's last run
    matches,       \* generate_answer's local `matches`
    request,       \* the payload of the requests.post in flight, if any
    attempts,      \* requests.post calls made by the last generate_answer
    outcome,       \* how the last generate_answer of the session ended
    answer,        \* the value generate_answer last returned
    call           \* a single call of a pure function: arguments and result

appvars == <<fs, cache, session_state, pc, user_input, screen, warnings,
             matches, request, attempts, outcome, answer>>

vars == <<appvars, call>>

(***************************************************************************)
(* Program constants.                                                      *)
(***************************************************************************)
CHUNK_SIZE == 900

MAX_CONTEXT_CHUNKS == 4

WRAP_WIDTH == 90

(***************************************************************************)
(* Bounds of the model.                                                    *)
(***************************************************************************)
MaxTextLen == 4

MaxChunkSize == 3

MaxDocs == 2

MaxIndexLen == 5

MaxQueryWords == 2

MaxTurns == 2

(***************************************************************************)
(* Python str operations.                                                  *)
(***************************************************************************)
Chars == {"a", "b", "A", " ", "\n"}

IsSpace(c) == c \in {" ", "\n", "\t", "\r"}

LowerChar(c) ==
    CASE c = "A" -> "a"
      [] c = "B" -> "b"
      [] c = "P" -> "p"
      [] c = "D" -> "d"
      [] c = "F" -> "f"
      [] OTHER -> c

lower(s) == [i \in 1..Len(s) |-> LowerChar(s[i])]

\* s[start:end] with 0 <= start and 0 <= end
Slice(s, start, end) ==
    LET e == IF end < Len(s) THEN end ELSE Len(s)
    IN  IF start >= e THEN << >> ELSE SubSeq(s, start + 1, e)

strip(s) ==
    IF \A i \in 1..Len(s) : IsSpace(s[i])
    THEN << >>
    ELSE LET first == CHOOSE i \in 1..Len(s) :
                          /\ ~IsSpace(s[i])
                          /\ \A j \in 1..(i - 1) : IsSpace(s[j])
             last  == CHOOSE i \in 1..Len(s) :
                          /\ ~IsSpace(s[i])
                          /\ \A j \in (i + 1)..Len(s) : IsSpace(s[j])
         IN  SubSeq(s, first, last)

\* word in text
Contains(word, text) ==
    \E off \in 0..(Len(text) - Len(word)) :
        \A j \in 1..Len(word) : text[off + j] = word[j]

EndsWith(s, suffix) ==
    /\ Len(s) >= Len(suffix)
    /\ SubSeq(s, Len(s) - Len(suffix) + 1, Len(s)) = suffix

RECURSIVE SortedSeq(_)
SortedSeq(S) ==
    IF S = {} THEN << >>
    ELSE LET m == CHOOSE x \in S : \A y \in S : x <= y
         IN  <<m>> \o SortedSeq(S \ {m})

\* the end of the maximal run of same-kind characters that starts at i
RunEnd(s, i) ==
    CHOOSE j \in i..Len(s) :
        /\ \A k \in i..j : IsSpace(s[k]) = IsSpace(s[i])
        /\ j = Len(s) \/ IsSpace(s[j + 1]) # IsSpace(s[i])

WordsFrom(s, order) ==
    [k \in 1..Len(order) |-> SubSeq(s, order[k], RunEnd(s, order[k]))]

\* s.split(): the maximal runs of non-whitespace characters
split(s) ==
    WordsFrom(s, SortedSeq({i \in 1..Len(s) :
                               /\ ~IsSpace(s[i])
                               /\ i = 1 \/ IsSpace(s[i - 1])}))

RECURSIVE join(_, _)
join(sep, parts) ==
    IF parts = << >> THEN << >>
    ELSE IF Len(parts) = 1 THEN parts[1]
    ELSE parts[1] \o sep \o join(sep, Tail(parts))

(***************************************************************************)
(* split_into_chunks                                                       *)
(***************************************************************************)
RECURSIVE SplitFrom(_, _, _)
SplitFrom(text, chunk_size, start) ==
    IF start < Len(text)
    THEN LET end   == start + chunk_size
             chunk == Slice(text, start, end)
         IN  <<strip(chunk)>> \o SplitFrom(text, chunk_size, start + chunk_size)
    ELSE << >>

\* a chunker that does not trim
RECURSIVE SplitRawFrom(_, _, _)
SplitRawFrom(text, chunk_size, start) ==
    IF start < Len(text)
    THEN <<Slice(text, start, start + chunk_size)>>
             \o SplitRawFrom(text, chunk_size, start + chunk_size)
    ELSE << >>

split_untrimmed(text, chunk_size) == SplitRawFrom(text, chunk_size, 0)

split_into_chunks(text, chunk_size) == SplitFrom(text, chunk_size, 0)

(***************************************************************************)
(* build_index                                                             *)
(***************************************************************************)
\* an inner loop without the `if chunk` test
RECURSIVE EntriesKeepingEmpty(_, _)
EntriesKeepingEmpty(name, chunks) ==
    IF chunks = << >> THEN << >>
    ELSE <<<<name, Head(chunks)>>>> \o EntriesKeepingEmpty(name, Tail(chunks))

RECURSIVE EntriesOf(_, _)
EntriesOf(name, chunks) ==
    IF chunks = << >> THEN << >>
    ELSE (IF Head(chunks) # << >> THEN <<<<name, Head(chunks)>>>> ELSE << >>)
             \o EntriesOf(name, Tail(chunks))

RECURSIVE build_index(_)
build_index(documents) ==
    IF documents = << >> THEN << >>
    ELSE LET name == Head(documents)[1]
             text == Head(documents)[2]
         IN  EntriesOf(name, split_into_chunks(text, CHUNK_SIZE))
                 \o build_index(Tail(documents))

(***************************************************************************)
(* search_index                                                            *)
(***************************************************************************)
\* query_words: the words of the stripped, lower-cased query longer than 2
QueryWords(query) ==
    SelectSeq(split(lower(strip(query))), LAMBDA w : Len(w) > 2)

\* the inner loop: one point for every entry of query_words found in the chunk
CountFound(query_words, chunk_lower) ==
    Cardinality({k \in 1..Len(query_words) :
                    Contains(query_words[k], chunk_lower)})

Score(query_words, chunk) == CountFound(query_words, lower(chunk))

RECURSIVE ScoredChunks(_, _)
ScoredChunks(query_words, index) ==
    IF index = << >> THEN << >>
    ELSE LET doc_name == Head(index)[1]
             chunk    == Head(index)[2]
             score    == Score(query_words, chunk)
         IN  (IF score > 0 THEN <<<<score, doc_name, chunk>>>> ELSE << >>)
                 \o ScoredChunks(query_words, Tail(index))

\* an insertion that puts x before the entries of equal score
RECURSIVE InsertBeforeEqual(_, _)
InsertBeforeEqual(sorted, x) ==
    IF sorted = << >> THEN <<x>>
    ELSE IF Head(sorted)[1] > x[1]
         THEN <<Head(sorted)>> \o InsertBeforeEqual(Tail(sorted), x)
         ELSE <<x>> \o sorted

\* list.sort(key=score, reverse=True) is stable: x goes behind every entry
\* already placed whose score is at least its own
RECURSIVE InsertByScore(_, _)
InsertByScore(sorted, x) ==
    IF sorted = << >> THEN <<x>>
    ELSE IF Head(sorted)[1] >= x[1]
         THEN <<Head(sorted)>> \o InsertByScore(Tail(sorted), x)
         ELSE <<x>> \o sorted

RECURSIVE SortByScore(_)
SortByScore(scored) ==
    IF scored = << >> THEN << >>
    ELSE InsertByScore(SortByScore(SubSeq(scored, 1, Len(scored) - 1)),
                       scored[Len(scored)])

\* scored_chunks[:MAX_CONTEXT_CHUNKS]
TopChunks(scored) ==
    Slice(scored, 0, MAX_CONTEXT_CHUNKS)

SortedScored(query_words, index) ==
    IF query_words = << >> THEN << >>
    ELSE SortByScore(ScoredChunks(query_words, index))

\* the local scored_chunks when search_index returns
scored_chunks_of(query, index) ==
    IF strip(query) = << >> THEN << >>
    ELSE SortedScored(QueryWords(query), index)

Results(top_chunks) ==
    [k \in 1..Len(top_chunks) |-> <<top_chunks[k][2], top_chunks[k][3]>>]

search_index(query, index) ==
    Results(TopChunks(scored_chunks_of(query, index)))

(***************************************************************************)
(* load_pdfs.  A folder is absent (os.path.isdir is false), unlistable     *)
(* (it is a directory but os.listdir raises OSError) or listable; a file   *)
(* has a name, may make pdfplumber.open raise, and has pages whose         *)
(* extract_text() gives a text or None.                                    *)
(***************************************************************************)
PageText(page) == IF page.has_text THEN page.text ELSE << >>

FullText(file) ==
    strip(join(<<"\n">>, [k \in 1..Len(file.pages) |-> PageText(file.pages[k])]))

IsPdfName(filename) == EndsWith(lower(filename), <<".", "p", "d", "f">>)

RECURSIVE DocumentsOf(_)
DocumentsOf(files) ==
    IF files = << >> THEN << >>
    ELSE LET file == Head(files)
         IN  (IF IsPdfName(file.name) /\ file.readable /\ FullText(file) # << >>
              THEN <<<<file.name, FullText(file)>>>>
              ELSE << >>) \o DocumentsOf(Tail(files))

RECURSIVE ReadWarningsOf(_)
ReadWarningsOf(files) ==
    IF files = << >> THEN << >>
    ELSE LET file == Head(files)
         IN  (IF IsPdfName(file.name) /\ ~file.readable
              THEN <<<<"Could not read ">> \o file.name>>
              ELSE << >>) \o ReadWarningsOf(Tail(files))

\* nothing is loaded on a cache hit
NotLoaded == [raised |-> FALSE, documents |-> << >>, warned |-> << >>]

load_pdfs(folder) ==
    IF folder.kind = "absent"
    THEN [raised |-> FALSE, documents |-> << >>, warned |-> << >>]
    ELSE IF folder.kind = "unlistable"
    THEN [raised |-> TRUE, documents |-> << >>, warned |-> << >>]
    ELSE [raised |-> FALSE, documents |-> DocumentsOf(folder.files),
          warned |-> ReadWarningsOf(folder.files)]

(***************************************************************************)
(* get_index: sorted({name for name, _ in documents})                      *)
(***************************************************************************)
CodePoint(c) ==
    CASE c = "." -> 46
      [] c = "A" -> 65
      [] c = "B" -> 66
      [] c = "D" -> 68
      [] c = "F" -> 70
      [] c = "P" -> 80
      [] c = "a" -> 97
      [] c = "b" -> 98
      [] c = "c" -> 99
      [] c = "d" -> 100
      [] c = "e" -> 101
      [] c = "f" -> 102
      [] c = "g" -> 103
      [] c = "p" -> 112
      [] c = "t" -> 116
      [] c = "x" -> 120

StrLess(x, y) ==
    \E k \in 1..(Len(x) + 1) :
        /\ \A i \in 1..(k - 1) : i <= Len(y) /\ x[i] = y[i]
        /\ \/ k > Len(x) /\ k <= Len(y)
           \/ k <= Len(x) /\ k <= Len(y) /\ CodePoint(x[k]) < CodePoint(y[k])

RECURSIVE sorted(_)
sorted(names) ==
    IF names = {} THEN << >>
    ELSE LET least == CHOOSE x \in names : \A y \in names \ {x} : StrLess(x, y)
         IN  <<least>> \o sorted(names \ {least})

get_index_value(documents) ==
    [index     |-> build_index(documents),
     doc_names |-> sorted({documents[k][1] : k \in 1..Len(documents)})]

(***************************************************************************)
(* textwrap.fill(text, width) on text without tabs and hyphens             *)
(***************************************************************************)
RECURSIVE Concat(_)
Concat(parts) ==
    IF parts = << >> THEN << >> ELSE Head(parts) \o Concat(Tail(parts))

IsBlank(s) == \A i \in 1..Len(s) : IsSpace(s[i])

\* replace_whitespace
Munge(text) == [i \in 1..Len(text) |-> IF IsSpace(text[i]) THEN " " ELSE text[i]]

RunsFrom(text, order) ==
    [k \in 1..Len(order) |->
        SubSeq(text, order[k],
               IF k < Len(order) THEN order[k + 1] - 1 ELSE Len(text))]

\* the split into words and runs of spaces
RunsOf(text) ==
    RunsFrom(text, SortedSeq({i \in 1..Len(text) :
                                 i = 1 \/ IsSpace(text[i]) # IsSpace(text[i - 1])}))

WrapChunks(text) == RunsOf(Munge(text))

\* TextWrapper._wrap_chunks with drop_whitespace and break_long_words
RECURSIVE WrapLines(_, _, _)
WrapLines(chunks, lines, width) ==
    IF chunks = << >> THEN lines
    ELSE LET pending  == IF IsBlank(Head(chunks)) /\ lines # << >>
                         THEN Tail(chunks) ELSE chunks
             fits     == {n \in 0..Len(pending) :
                             Len(Concat(SubSeq(pending, 1, n))) <= width}
             taken    == CHOOSE n \in fits : \A m \in fits : m <= n
             cur_len  == Len(Concat(SubSeq(pending, 1, taken)))
             rest     == SubSeq(pending, taken + 1, Len(pending))
             too_long == rest # << >> /\ Len(Head(rest)) > width
             space_left == width - cur_len
             cur_line == IF too_long
                         THEN Append(SubSeq(pending, 1, taken),
                                     SubSeq(Head(rest), 1, space_left))
                         ELSE SubSeq(pending, 1, taken)
             left     == IF too_long
                         THEN <<SubSeq(Head(rest), space_left + 1, Len(Head(rest)))>>
                                  \o Tail(rest)
                         ELSE rest
             kept     == IF cur_line # << >> /\ IsBlank(cur_line[Len(cur_line)])
                         THEN SubSeq(cur_line, 1, Len(cur_line) - 1)
                         ELSE cur_line
         IN  WrapLines(left,
                       IF kept # << >> THEN Append(lines, Concat(kept)) ELSE lines,
                       width)

fill(text, width) == join(<<"\n">>, WrapLines(WrapChunks(text), << >>, width))

(***************************************************************************)
(* build_strict_answer_from_chunks                                         *)
(***************************************************************************)
NOT_FOUND_EXACT ==
    <<"I could not find an exact answer to your question in the available PDFs. Please try rephrasing your question or checking the documents directly.">>

FROM_OPEN == "From **"

FROM_CLOSE == "**:\n\n"

BLOCK_SEPARATOR == "\n\n---\n\n"

ExcerptBlock(match) ==
    <<FROM_OPEN>> \o match[1] \o <<FROM_CLOSE>> \o fill(match[2], WRAP_WIDTH)

\* an excerpt answer that shows the best match only
strict_answer_first_only(found) ==
    IF found = << >> THEN NOT_FOUND_EXACT ELSE ExcerptBlock(found[1])

build_strict_answer_from_chunks(found) ==
    IF found = << >> THEN NOT_FOUND_EXACT
    ELSE join(<<BLOCK_SEPARATOR>>,
              [k \in 1..Len(found) |-> ExcerptBlock(found[k])])

(***************************************************************************)
(* call_ollama_llm: the request, and what becomes of the backend's reply   *)
(***************************************************************************)
OLLAMA_MODEL == "llama3:latest"

SYSTEM_PROMPT ==
    <<"You are a helpful assistant for Africa International University (AIU) PDF documents. You MUST answer strictly and only using the information in the provided CONTEXT. If the answer is not explicitly in the context, you MUST reply: \"I am not sure; the PDFs I have do not say that clearly.\" Do NOT invent facts. Do not use outside knowledge. Be clear, concise, and friendly.">>

OllamaPayload(question, context) ==
    [model    |-> OLLAMA_MODEL,
     messages |-> <<[role |-> "system", content |-> SYSTEM_PROMPT],
                    [role |-> "user",
                     content |-> <<"QUESTION:\n">> \o question \o <<"\n\n">>
                                 \o <<"CONTEXT (from AIU PDFs):\n">> \o context
                                 \o <<"\n\n">>
                                 \o <<"Now give a clear, student-friendly answer using only this context. If the context does not contain the answer, say you are not sure.">>]>>,
     stream   |-> FALSE]

\* requests.post raises on a transport failure or a timeout,
\* raise_for_status on a 4xx or 5xx status, response.json() on a body that is
\* not JSON, and data["message"]["content"] on a missing key
OllamaReturn(reply) ==
    IF reply.kind = "connection_error"
    THEN [raised |-> TRUE, error |-> "ConnectionError", value |-> << >>]
    ELSE IF reply.kind = "timeout"
    THEN [raised |-> TRUE, error |-> "Timeout", value |-> << >>]
    ELSE IF reply.status >= 400 /\ reply.status < 600
    THEN [raised |-> TRUE, error |-> "HTTPError", value |-> << >>]
    ELSE IF ~reply.is_json
    THEN [raised |-> TRUE, error |-> "JSONDecodeError", value |-> << >>]
    ELSE IF ~reply.has_message \/ ~reply.has_content
    THEN [raised |-> TRUE, error |-> "KeyError", value |-> << >>]
    ELSE [raised |-> FALSE, error |-> "", value |-> reply.content]

(***************************************************************************)
(* generate_answer, up to the requests.post and from the reply on          *)
(***************************************************************************)
NO_MATCH_MESSAGE ==
    <<"I could not find a matching answer to your question in the PDFs. Try using different words that might appear in the documents.">>

ContextText(found) ==
    join(<<"\n\n-----\n\n">>,
         [k \in 1..Len(found) |-> <<"Document: ">> \o found[k][1] \o <<"\n">> \o found[k][2]])

\* a generate_answer that contacts the backend whatever the search found
GenerateAnswerAlwaysPosting(query, index) ==
    LET found == search_index(query, index)
    IN  [matches |-> found, returned |-> FALSE, value |-> << >>, posts |-> 1,
         request |-> <<OllamaPayload(query, ContextText(found))>>]

GenerateAnswerStart(query, index) ==
    LET found == search_index(query, index)
    IN  IF found = << >>
        THEN [matches |-> found, returned |-> TRUE, value |-> NO_MATCH_MESSAGE,
              posts |-> 0, request |-> << >>]
        ELSE [matches |-> found, returned |-> FALSE, value |-> << >>, posts |-> 1,
              request |-> <<OllamaPayload(query, ContextText(found))>>]

GenerateAnswerFinish(found, reply) ==
    LET got == OllamaReturn(reply)
    IN  IF got.raised
        THEN [value  |-> build_strict_answer_from_chunks(found),
              warned |-> <<<<"LLM call failed, falling back to PDF text only. Error: ",
                             got.error>>>>,
              how    |-> got.error]
        ELSE [value |-> got.value, warned |-> << >>, how |-> "returned"]

(***************************************************************************)
(* init_session_state and the conversation log                             *)
(***************************************************************************)
\* an initialisation that starts every run with an empty log
init_session_state_resetting(state) == [messages |-> << >>]

init_session_state(state) ==
    IF "messages" \in DOMAIN state THEN state ELSE [messages |-> << >>]

Log(s) ==
    IF "messages" \in DOMAIN session_state[s]
    THEN session_state[s].messages ELSE << >>

\* the number of messages in the logs of the sessions of S
RECURSIVE Logged(_)
Logged(S) ==
    IF S = {} THEN 0
    ELSE LET s == CHOOSE x \in S : TRUE
         IN  Len(Log(s)) + Logged(S \ {s})

Message(role, content) == [role |-> role, content |-> content]

(***************************************************************************)
(* The state of the application while a pure function is exercised alone.  *)
(***************************************************************************)
Sessions == {"s1", "s2"}

NoCall == [fn |-> "none"]

NoScreen == [sidebar |-> "", body |-> ""]

AppAtRest ==
    /\ fs = [kind |-> "absent", files |-> << >>]
    /\ cache = << >>
    /\ session_state = [s \in Sessions |-> << >>]
    /\ pc = [s \in Sessions |-> "idle"]
    /\ user_input = [s \in Sessions |-> << >>]
    /\ screen = [s \in Sessions |-> NoScreen]
    /\ warnings = [s \in Sessions |-> << >>]
    /\ matches = [s \in Sessions |-> << >>]
    /\ request = [s \in Sessions |-> << >>]
    /\ attempts = [s \in Sessions |-> 0]
    /\ outcome = [s \in Sessions |-> "none"]
    /\ answer = [s \in Sessions |-> << >>]

(***************************************************************************)
(* SpecChunk: split_into_chunks applied to every short text and size.      *)
(***************************************************************************)
Texts == UNION {[1..n -> Chars] : n \in 0..MaxTextLen}

InitChunk ==
    /\ AppAtRest
    /\ \E text \in Texts, chunk_size \in 1..MaxChunkSize :
           call = [fn |-> "split_into_chunks", text |-> text,
                   chunk_size |-> chunk_size, done |-> FALSE, result |-> << >>]

CallSplit ==
    /\ call.fn = "split_into_chunks"
    /\ ~call.done
    /\ call' = [call EXCEPT !.done = TRUE,
                            !.result = split_into_chunks(call.text, call.chunk_size)]
    /\ UNCHANGED appvars

NextChunk == CallSplit

SpecChunk == InitChunk /\ [][NextChunk]_vars

(***************************************************************************)
(* What the chunker is measured against: the i-th fixed window of the      *)
(* text, and what it means for t to be x without its outer whitespace.     *)
(***************************************************************************)
NumWindows(text, S) == (Len(text) + S - 1) \div S

Window(text, S, i) == Slice(text, i * S, (i + 1) * S)

IsTrimOf(t, x) ==
    IF t = << >>
    THEN \A i \in 1..Len(x) : IsSpace(x[i])
    ELSE /\ ~IsSpace(t[1])
         /\ ~IsSpace(t[Len(t)])
         /\ \E a \in 0..(Len(x) - Len(t)) :
                /\ \A i \in 1..Len(t) : x[a + i] = t[i]
                /\ \A i \in 1..a : IsSpace(x[i])
                /\ \A i \in (a + Len(t) + 1)..Len(x) : IsSpace(x[i])

SplitDone == call.fn = "split_into_chunks" /\ call.done

\* C6 as claimed: the output of split_into_chunks is the trimmed windows
\* text[i*S, (i+1)*S) in increasing i with the windows that trim to empty left
\* out, and every returned chunk is non-empty and at most S characters long.
C6_AsClaimed ==
    SplitDone =>
        LET text == call.text
            S    == call.chunk_size
            kept == SelectSeq([i \in 1..NumWindows(text, S) |-> i],
                              LAMBDA i : ~IsTrimOf(<< >>, Window(text, S, i - 1)))
        IN  /\ Len(call.result) = Len(kept)
            /\ \A k \in 1..Len(kept) :
                   IsTrimOf(call.result[k], Window(text, S, kept[k] - 1))
            /\ \A k \in 1..Len(call.result) :
                   call.result[k] # << >> /\ Len(call.result[k]) <= S

\* C6 amended: the output of split_into_chunks has one entry per window
\* text[i*S, (i+1)*S), in increasing i: the window without its leading and
\* trailing whitespace, the empty string included when the window is all
\* whitespace; every entry is at most S characters long.
C6_Amended ==
    SplitDone =>
        LET text == call.text
            S    == call.chunk_size
        IN  /\ Len(call.result) = NumWindows(text, S)
            /\ \A i \in 1..Len(call.result) :
                   /\ IsTrimOf(call.result[i], Window(text, S, i - 1))
                   /\ Len(call.result[i]) <= S

\* split_into_chunks returned an empty chunk followed by a non-empty one, and
\* a chunk that lost whitespace at one of its ends
C6_Witness ==
    /\ SplitDone
    /\ \E i, j \in 1..Len(call.result) :
           i < j /\ call.result[i] = << >> /\ call.result[j] # << >>
    /\ \E i \in 1..Len(call.result) :
           /\ call.result[i] # << >>
           /\ Len(call.result[i]) < Len(Window(call.text, call.chunk_size, i - 1))

(***************************************************************************)
(* SpecIndex: build_index applied to short sequences of documents, some    *)
(* of them longer than one chunk.                                          *)
(***************************************************************************)
Gap(n) == [i \in 1..n |-> " "]

DocNames == {<<"p", ".", "p", "d", "f">>, <<"q", ".", "p", "d", "f">>}

TwoChunkText == <<"a", "b", "a">> \o Gap(CHUNK_SIZE - 3) \o <<"b", "a", "b">>

StraddlingText ==
    <<"a", "b">> \o Gap(CHUNK_SIZE - 3) \o <<"a", "b", "\n", "A">>

HollowText == <<"a">> \o Gap(2 * CHUNK_SIZE) \o <<"b">>

DocTexts ==
    {<< >>, <<" ", "\n">>, <<" ", "a", "b", "a", " ">>,
     TwoChunkText, StraddlingText, HollowText}

RECURSIVE SeqsUpTo(_, _)
SeqsUpTo(S, n) ==
    IF n = 0 THEN {<< >>}
    ELSE LET shorter == SeqsUpTo(S, n - 1)
         IN  shorter \cup {Append(q, x) : q \in shorter, x \in S}

InitIndex ==
    /\ AppAtRest
    /\ \E documents \in SeqsUpTo(DocNames \X DocTexts, MaxDocs) :
           call = [fn |-> "build_index", documents |-> documents,
                   done |-> FALSE, result |-> << >>]

CallBuildIndex ==
    /\ call.fn = "build_index"
    /\ ~call.done
    /\ call' = [call EXCEPT !.done = TRUE,
                            !.result = build_index(call.documents)]
    /\ UNCHANGED appvars

NextIndex == CallBuildIndex

SpecIndex == InitIndex /\ [][NextIndex]_vars

BuildDone == call.fn = "build_index" /\ call.done

\* the (document, window) positions whose window has a non-whitespace character
FilledWindows(documents) ==
    {p \in (1..Len(documents)) \X (0..2) :
        /\ p[2] < NumWindows(documents[p[1]][2], CHUNK_SIZE)
        /\ ~IsTrimOf(<< >>, Window(documents[p[1]][2], CHUNK_SIZE, p[2]))}

PlaceOf(p, P) ==
    Cardinality({q \in P : q[1] < p[1] \/ (q[1] = p[1] /\ q[2] <= p[2])})

\* C7: build_index returns every non-empty trimmed chunk of every document
\* exactly once, in document order and then position order, tagged with the
\* name of its document, and no entry of the index has empty chunk text.
C7_IndexComplete ==
    BuildDone =>
        LET documents == call.documents
            P == FilledWindows(documents)
        IN  /\ \A d \in 1..Len(documents) :
                   NumWindows(documents[d][2], CHUNK_SIZE) <= 3
            /\ Len(call.result) = Cardinality(P)
            /\ \A p \in P :
                   LET entry == call.result[PlaceOf(p, P)]
                   IN  /\ entry[1] = documents[p[1]][1]
                       /\ IsTrimOf(entry[2],
                                   Window(documents[p[1]][2], CHUNK_SIZE, p[2]))
            /\ \A k \in 1..Len(call.result) : call.result[k][2] # << >>

\* build_index ran on two documents, one of which has an all-whitespace
\* window between two windows with text
C7_Witness ==
    /\ BuildDone
    /\ Len(call.documents) = 2
    /\ \E d \in 1..2 :
           /\ <<d, 0>> \in FilledWindows(call.documents)
           /\ <<d, 1>> \notin FilledWindows(call.documents)
           /\ <<d, 2>> \in FilledWindows(call.documents)
    /\ Len(call.result) >= 3

(***************************************************************************)
(* SpecSearch: search_index applied to short queries and indexes.  A query *)
(* is a list of tokens joined by single spaces; the empty token gives      *)
(* leading, trailing and doubled spaces and the empty query.               *)
(***************************************************************************)
QueryTokens ==
    {<< >>, <<"a", "b">>, <<"a", "b", "a">>, <<"B", "A", "B">>}

Queries ==
    {join(<<" ">>, tokens) : tokens \in SeqsUpTo(QueryTokens, MaxQueryWords)}

IndexEntries ==
    {<<<<"p", ".", "p", "d", "f">>, <<"a", "b", "a">>>>,
     <<<<"q", ".", "p", "d", "f">>, <<"A", "b", "a", "\n", "b", "a", "b">>>>,
     <<<<"p", ".", "p", "d", "f">>, <<"b", "a", "b">>>>}

InitSearch ==
    /\ AppAtRest
    /\ \E query \in Queries, index \in SeqsUpTo(IndexEntries, MaxIndexLen) :
           call = [fn |-> "search_index", query |-> query, index |-> index,
                   done |-> FALSE, scored_chunks |-> << >>, result |-> << >>]

CallSearch ==
    /\ call.fn = "search_index"
    /\ ~call.done
    /\ call' = [call EXCEPT !.done = TRUE,
                            !.scored_chunks = scored_chunks_of(call.query, call.index),
                            !.result = search_index(call.query, call.index)]
    /\ UNCHANGED appvars

NextSearch == CallSearch

SpecSearch == InitSearch /\ [][NextSearch]_vars

SearchDone == call.fn = "search_index" /\ call.done

\* the different query words: lower-cased, whitespace-separated, longer than 2
DistinctWords(query) ==
    LET q == lower(query)
        spans == {sp \in (1..Len(q)) \X (1..Len(q)) :
                     /\ sp[2] - sp[1] + 1 > 2
                     /\ \A k \in sp[1]..sp[2] : ~IsSpace(q[k])
                     /\ sp[1] = 1 \/ IsSpace(q[sp[1] - 1])
                     /\ sp[2] = Len(q) \/ IsSpace(q[sp[2] + 1])}
    IN  {SubSeq(q, sp[1], sp[2]) : sp \in spans}

DistinctScore(query, chunk) ==
    Cardinality({w \in DistinctWords(query) : Contains(w, lower(chunk))})

\* C4: the score search_index gives a chunk is the number of distinct query
\* words (lower-cased, whitespace-separated, longer than 2) that occur in the
\* lower-cased chunk, however often a word is repeated in the query, and a
\* chunk of score 0 is never returned.
C4_DistinctWordScore ==
    SearchDone =>
        /\ \A k \in 1..Len(call.scored_chunks) :
               call.scored_chunks[k][1] =
                   DistinctScore(call.query, call.scored_chunks[k][3])
        /\ \A k \in 1..Len(call.result) :
               DistinctScore(call.query, call.result[k][2]) > 0

ScoresOf(words, entries) ==
    [i \in 1..Len(entries) |-> Score(words, entries[i][2])]

\* the positions of positive score, best first, and among equal scores the
\* earlier position first
RankingOf(scores) ==
    LET pos == {i \in DOMAIN scores : scores[i] > 0}
        before(i, j) ==
            \/ scores[i] > scores[j]
            \/ scores[i] = scores[j] /\ i < j
    IN  [k \in 1..Cardinality(pos) |->
            CHOOSE i \in pos : Cardinality({j \in pos : before(j, i)}) = k - 1]

RankedPositions(query, index) == RankingOf(ScoresOf(QueryWords(query), index))

IsRankedPrefix(result, result_scores, index, ranked) ==
    LET n == IF Len(ranked) < MAX_CONTEXT_CHUNKS
             THEN Len(ranked) ELSE MAX_CONTEXT_CHUNKS
    IN  /\ Len(result) = n
        /\ Len(result) <= MAX_CONTEXT_CHUNKS
        /\ \A k \in 1..n : result[k] = index[ranked[k]]
        /\ \A k \in 1..(n - 1) : result_scores[k] >= result_scores[k + 1]

\* C5: the result of search_index is the first MAX_CONTEXT_CHUNKS entries of
\* the chunks of positive score ordered by score descending, equal scores in
\* index order; scores do not increase along it and it is never longer than
\* MAX_CONTEXT_CHUNKS.
C5_RankedPrefix ==
    SearchDone =>
        IsRankedPrefix(call.result,
                       ScoresOf(QueryWords(call.query), call.result),
                       call.index,
                       RankedPositions(call.query, call.index))

\* search_index cut a longer ranking down to MAX_CONTEXT_CHUNKS and the
\* result holds two different entries of equal score and a score drop
C5_Witness ==
    /\ SearchDone
    /\ Len(RankedPositions(call.query, call.index)) > MAX_CONTEXT_CHUNKS
    /\ Len(call.result) = MAX_CONTEXT_CHUNKS
    /\ LET words == QueryWords(call.query)
       IN  /\ \E k \in 1..(Len(call.result) - 1) :
                  /\ call.result[k] # call.result[k + 1]
                  /\ Score(words, call.result[k][2])
                         = Score(words, call.result[k + 1][2])
           /\ \E k \in 1..(Len(call.result) - 1) :
                  Score(words, call.result[k][2])
                      > Score(words, call.result[k + 1][2])

(***************************************************************************)
(* Spec: the application.  Every session runs the script main() again and  *)
(* again; a run is one step unless generate_answer posts to the backend,   *)
(* and then the rest of the run is a second step taken when the reply (or  *)
(* the failure) arrives.  get_index is a memoised call: the entry is       *)
(* written once by the first run that gets past load_pdfs.                 *)
(***************************************************************************)
FileA == [name |-> <<"a", ".", "p", "d", "f">>, readable |-> TRUE,
          pages |-> <<[has_text |-> TRUE, text |-> <<"a", "b", "a">>]>>]

FileB == [name |-> <<"B", ".", "P", "D", "F">>, readable |-> TRUE,
          pages |-> <<[has_text |-> TRUE, text |-> <<"b", "a", "b">>],
                      [has_text |-> FALSE, text |-> << >>],
                      [has_text |-> TRUE, text |-> <<"A", "b", "a", " ">>]>>]

FileText == [name |-> <<"c", ".", "t", "x", "t">>, readable |-> TRUE,
             pages |-> <<[has_text |-> TRUE, text |-> <<"a", "b", "a">>]>>]

FileBroken == [name |-> <<"d", ".", "p", "d", "f">>, readable |-> FALSE,
               pages |-> << >>]

FileBlank == [name |-> <<"e", ".", "p", "d", "f">>, readable |-> TRUE,
              pages |-> <<[has_text |-> FALSE, text |-> << >>],
                          [has_text |-> TRUE, text |-> <<" ">>]>>]

\* one chunk that textwrap.fill has to break
FileLong == [name |-> <<"g", ".", "p", "d", "f">>, readable |-> TRUE,
             pages |-> <<[has_text |-> TRUE,
                          text |-> <<"a", "b", "a">> \o Gap(WRAP_WIDTH)
                                       \o <<"b", "a", "b">>]>>]

Listings ==
    {<< >>, <<FileA>>, <<FileB, FileA>>, <<FileText, FileBroken, FileBlank>>,
     <<FileBroken, FileLong, FileA>>}

Folders ==
    {[kind |-> "absent", files |-> << >>], [kind |-> "unlistable", files |-> << >>]}
        \cup {[kind |-> "listable", files |-> files] : files \in Listings}

\* what st.chat_input returns: << >> stands for None (nothing submitted)
UserInputs ==
    {<< >>, <<" ">>, <<"a", "b", "a">>, <<"B", "A", "B", " ", "a", "b">>}

Payloads == {<< >>, <<"Attendance is compulsory.">>}

Response(status, is_json, has_message, has_content, content) ==
    [kind |-> "response", status |-> status, is_json |-> is_json,
     has_message |-> has_message, has_content |-> has_content, content |-> content]

Replies ==
    {[kind |-> k, status |-> 0, is_json |-> FALSE, has_message |-> FALSE,
      has_content |-> FALSE, content |-> << >>] : k \in {"connection_error", "timeout"}}
        \cup {Response(500, TRUE, TRUE, TRUE, <<"Attendance is compulsory.">>),
              Response(404, FALSE, FALSE, FALSE, << >>),
              Response(200, FALSE, FALSE, FALSE, << >>),
              Response(200, TRUE, FALSE, FALSE, << >>),
              Response(200, TRUE, TRUE, FALSE, << >>)}
        \cup {Response(200, TRUE, TRUE, TRUE, text) : text \in Payloads}

Init ==
    /\ fs \in Folders
    /\ cache = << >>
    /\ session_state = [s \in Sessions |-> << >>]
    /\ pc = [s \in Sessions |-> "idle"]
    /\ user_input = [s \in Sessions |-> << >>]
    /\ screen = [s \in Sessions |-> NoScreen]
    /\ warnings = [s \in Sessions |-> << >>]
    /\ matches = [s \in Sessions |-> << >>]
    /\ request = [s \in Sessions |-> << >>]
    /\ attempts = [s \in Sessions |-> 0]
    /\ outcome = [s \in Sessions |-> "none"]
    /\ answer = [s \in Sessions |-> << >>]
    /\ call = NoCall

\* main() from its first line to its return, to the uncaught exception of
\* load_pdfs, or to the requests.post of generate_answer
RunScript(s, typed) ==
    /\ pc[s] = "idle"
    /\ Logged(Sessions) < 2 * MaxTurns
    /\ \E state \in {init_session_state(session_state[s])},
          loaded \in {IF cache # << >> THEN NotLoaded ELSE load_pdfs(fs)} :
       \E value \in {IF cache # << >> THEN cache[1]
                     ELSE get_index_value(loaded.documents)} :
       \E began \in {GenerateAnswerStart(typed, value.index)} :
       LET shown  == loaded.warned
           side   == IF value.doc_names # << >> THEN "documents" ELSE "no_pdfs"
           asked  == Append(state.messages, Message("user", typed))
       IN  /\ user_input' = [user_input EXCEPT ![s] =
                  IF loaded.raised \/ value.doc_names = << >> THEN << >> ELSE typed]
           /\ IF loaded.raised
              THEN /\ session_state' = [session_state EXCEPT ![s] = state]
                   /\ screen' = [screen EXCEPT ![s] = [sidebar |-> "", body |-> "exception"]]
                   /\ warnings' = [warnings EXCEPT ![s] = << >>]
                   /\ outcome' = [outcome EXCEPT ![s] = "none"]
                   /\ attempts' = [attempts EXCEPT ![s] = 0]
                   /\ UNCHANGED <<cache, pc, matches, request, answer>>
              ELSE /\ cache' = <<value>>
                   /\ warnings' = [warnings EXCEPT ![s] = shown]
                   /\ IF value.doc_names = << >>
                      THEN /\ session_state' = [session_state EXCEPT ![s] = state]
                           /\ screen' = [screen EXCEPT ![s] =
                                  [sidebar |-> side, body |-> "no_documents"]]
                           /\ outcome' = [outcome EXCEPT ![s] = "none"]
                           /\ attempts' = [attempts EXCEPT ![s] = 0]
                           /\ UNCHANGED <<pc, matches, request, answer>>
                      ELSE IF typed = << >>
                      THEN /\ session_state' = [session_state EXCEPT ![s] = state]
                           /\ screen' = [screen EXCEPT ![s] =
                                  [sidebar |-> side, body |-> "chat"]]
                           /\ outcome' = [outcome EXCEPT ![s] = "none"]
                           /\ attempts' = [attempts EXCEPT ![s] = 0]
                           /\ UNCHANGED <<pc, matches, request, answer>>
                      ELSE /\ matches' = [matches EXCEPT ![s] = began.matches]
                           /\ attempts' = [attempts EXCEPT ![s] = began.posts]
                           /\ request' = [request EXCEPT ![s] = began.request]
                           /\ IF began.returned
                              THEN /\ answer' = [answer EXCEPT ![s] = began.value]
                                   /\ outcome' = [outcome EXCEPT ![s] = "no_match"]
                                   /\ session_state' = [session_state EXCEPT ![s] =
                                          [messages |-> Append(asked,
                                               Message("assistant", began.value))]]
                                   /\ screen' = [screen EXCEPT ![s] =
                                          [sidebar |-> side, body |-> "chat"]]
                                   /\ UNCHANGED pc
                              ELSE /\ pc' = [pc EXCEPT ![s] = "posted"]
                                   /\ outcome' = [outcome EXCEPT ![s] = "none"]
                                   /\ session_state' = [session_state EXCEPT ![s] =
                                          [messages |-> asked]]
                                   /\ screen' = [screen EXCEPT ![s] =
                                          [sidebar |-> side, body |-> "thinking"]]
                                   /\ UNCHANGED answer
    /\ UNCHANGED <<fs, call>>

\* the rest of main() once requests.post has returned or raised
BackendReplies(s, reply) ==
    /\ pc[s] = "posted"
    /\ \E ended \in {GenerateAnswerFinish(matches[s], reply)} :
           /\ answer' = [answer EXCEPT ![s] = ended.value]
           /\ outcome' = [outcome EXCEPT ![s] = ended.how]
           /\ warnings' = [warnings EXCEPT ![s] = warnings[s] \o ended.warned]
           /\ session_state' = [session_state EXCEPT ![s] =
                  [messages |-> Append(session_state[s].messages,
                                       Message("assistant", ended.value))]]
    /\ pc' = [pc EXCEPT ![s] = "idle"]
    /\ request' = [request EXCEPT ![s] = << >>]
    /\ screen' = [screen EXCEPT ![s] = [sidebar |-> screen[s].sidebar, body |-> "chat"]]
    /\ UNCHANGED <<fs, cache, user_input, matches, attempts, call>>

Next ==
    \/ \E s \in Sessions, typed \in UserInputs : RunScript(s, typed)
    \/ \E s \in Sessions, reply \in Replies : BackendReplies(s, reply)

Spec == Init /\ [][Next]_vars

Failures == {"ConnectionError", "Timeout", "HTTPError", "JSONDecodeError", "KeyError"}

\* generate_answer was called in the session's last run, which is over
Answered(s) == pc[s] = "idle" /\ outcome[s] # "none"

\* what search_index gives for the session's last input and the cached index
Found(s) == search_index(user_input[s], cache[1].index)

\* C1: generate_answer makes no attempt to contact the generation backend when
\* search_index returns no match, and then returns the fixed message; it makes
\* exactly one attempt when search_index returns a match, whether the attempt
\* succeeds or fails.
C1_AttemptCount ==
    \A s \in Sessions :
        (Answered(s) \/ pc[s] = "posted") =>
            IF Found(s) = << >>
            THEN /\ attempts[s] = 0
                 /\ request[s] = << >>
                 /\ outcome[s] = "no_match"
                 /\ answer[s] = NO_MATCH_MESSAGE
            ELSE /\ attempts[s] = 1
                 /\ outcome[s] # "no_match"

\* one session was answered without a match and made no attempt, another
\* made its one attempt and saw it fail
C1_Witness ==
    \E s, t \in Sessions :
        /\ Answered(s) /\ Found(s) = << >> /\ attempts[s] = 0
        /\ Answered(t) /\ outcome[t] \in Failures /\ attempts[t] = 1

RECURSIVE SplitOn(_, _)
SplitOn(text, sep) ==
    IF \E i \in 1..Len(text) : text[i] = sep
    THEN LET i == CHOOSE k \in 1..Len(text) :
                      text[k] = sep /\ \A j \in 1..(k - 1) : text[j] # sep
         IN  <<SubSeq(text, 1, i - 1)>> \o SplitOn(SubSeq(text, i + 1, Len(text)), sep)
    ELSE <<text>>

Visible(text) == SelectSeq(text, LAMBDA c : ~IsSpace(c))

\* block is "From **<document>**:" followed by the text of the chunk
IsExcerptOf(block, match) ==
    LET head == <<FROM_OPEN>> \o match[1] \o <<FROM_CLOSE>>
    IN  /\ Len(block) > Len(head)
        /\ SubSeq(block, 1, Len(head)) = head
        /\ Visible(SubSeq(block, Len(head) + 1, Len(block))) = Visible(match[2])

\* blocks are the excerpts of the matches found, one each, in their order
AreExcerptsOf(blocks, found) ==
    /\ found # << >>
    /\ Len(blocks) = Len(found)
    /\ \A k \in 1..Len(blocks) : IsExcerptOf(blocks[k], found[k])

\* C2: when search_index returns a match and the generation call fails, in
\* whichever way, generate_answer does not propagate the failure: the run
\* completes and the answer is the excerpt answer, one "From **<document>**:"
\* block per match in the order of the matches, joined by the --- separator.
C2_FallbackExcerpt ==
    \A s \in Sessions :
        outcome[s] \in Failures =>
            /\ pc[s] = "idle"
            /\ screen[s].body = "chat"
            /\ AreExcerptsOf(SplitOn(answer[s], BLOCK_SEPARATOR), Found(s))
            /\ Log(s)[Len(Log(s))] = [role |-> "assistant", content |-> answer[s]]

\* the same question failed by a timeout in one session and by a body that
\* is not JSON in the other, with two matches, and got the same answer
C2_Witness ==
    \E s, t \in Sessions :
        /\ outcome[s] = "Timeout"
        /\ outcome[t] = "JSONDecodeError"
        /\ user_input[s] = user_input[t]
        /\ Len(Found(s)) >= 2
        /\ answer[s] = answer[t]

\* C3: if search_index returns a match, generate_answer never returns the
\* empty string, whatever the generation backend does.
C3_NeverEmpty ==
    \A s \in Sessions :
        (Answered(s) /\ Found(s) # << >>) => answer[s] # << >>

\* the log of a session between two runs: user and assistant in turn
LogAlternates(s) ==
    /\ Len(Log(s)) % 2 = 0
    /\ \A i \in 1..Len(Log(s)) :
           Log(s)[i].role = IF i % 2 = 1 THEN "user" ELSE "assistant"

\* what one step may do to the log of a session
LogStep(s) ==
    LET old   == Log(s)
        new   == IF "messages" \in DOMAIN session_state'[s]
                 THEN session_state'[s].messages ELSE << >>
        asked == [role |-> "user", content |-> user_input'[s]]
        told  == [role |-> "assistant", content |-> answer'[s]]
    IN  /\ Len(new) >= Len(old)
        /\ SubSeq(new, 1, Len(old)) = old
        /\ (pc[s] = "idle" /\ pc'[s] = "posted") => new = old \o <<asked>>
        /\ (pc[s] = "posted" /\ pc'[s] = "idle") => new = old \o <<told>>
        /\ (pc[s] = "idle" /\ pc'[s] = "idle") =>
               new = old \/ new = old \o <<asked, told>>
        /\ (pc[s] = "posted" /\ pc'[s] = "posted") => new = old
        /\ \A typed \in UserInputs \ {<< >>} :
               (RunScript(s, typed) /\ screen'[s].body \in {"chat", "thinking"}) =>
                   /\ Len(new) > Len(old)
                   /\ outcome'[s] # "none" \/ pc'[s] = "posted"

\* C9: the conversation log of a session is append-only: handling a non-empty
\* input leaves the earlier messages in place and adds the user message with
\* the input and then the assistant message with the answer generate_answer
\* returned, so that between runs the log has even length and alternates.
C9_AppendOnlyLog ==
    /\ [](\A s \in Sessions : pc[s] = "idle" => LogAlternates(s))
    /\ [][\A s \in Sessions : LogStep(s)]_vars

\* a session has been through two questions, one without a match and one
\* answered by the backend
C9_Witness ==
    \E s \in Sessions :
        /\ pc[s] = "idle"
        /\ Len(Log(s)) = 4
        /\ Log(s)[2].content = NO_MATCH_MESSAGE
        /\ Log(s)[3].content # Log(s)[1].content
        /\ outcome[s] = "returned"
        /\ Log(s)[4].content = answer[s]

\* C10: when PDF_FOLDER is missing or cannot be read as a whole, a run does
\* not fail: no documents are loaded, the index is empty, the run shows the
\* "no documents" state, and no query is answered and the log stays empty.
C10_DegradesToNoDocuments ==
    \A s \in Sessions :
        (fs.kind \in {"absent", "unlistable"} /\ screen[s] # NoScreen) =>
            /\ screen[s] = [sidebar |-> "no_pdfs", body |-> "no_documents"]
            /\ cache = <<[index |-> << >>, doc_names |-> << >>]>>
            /\ Log(s) = << >>
            /\ outcome[s] = "none"

====
